---- MODULE Spec2Model ----
(***************************************************************************)
(* State-machine model of the FinOps Intelligence Dashboard frontend:      *)
(* the DashboardPage component with its two data hooks (useFinopsOverview, *)
(* useAggregatedCostData), the spend-summary request, the AIInsightPanel   *)
(* and the react-query caches of the distinct-value hooks.                 *)
(*                                                                         *)
(* One action is one React event: a user event handler or the settling of  *)
(* a promise, together with the re-render and the effects it triggers.     *)
(***************************************************************************)
EXTENDS Integers, Sequences, FiniteSets, TLC

(***************************************************************************)
(* Bounds of the model.                                                    *)
(***************************************************************************)
\* requests of one kind that may be in flight together
MaxPending == 2
\* components calling the distinct-values hooks that may be mounted together
MaxCallers == 2
\* calendar days the date inputs range over (day 0 stands for the empty input)
MaxDay == 2
\* user edits of input fields in one behaviour
MaxEdits == 2
\* rejected requests in one behaviour
MaxFailures == 1
\* records of the current month behind the overview
MaxRecords == 3
\* cost-record requests issued in one behaviour, the one of the mount included
MaxCostRequests == 4
\* pages the Pagination control may offer
MaxPage == 5
\* insight requests (spend summary, AI insight) issued in one behaviour
MaxInsightRequests == 2

\* selections of a dataset, a table or a row limit in one behaviour
MaxSelections == 4
\* records handed to the CostCharts as costData
MaxChartRecords == 3
\* records handed to the CostCharts as projectCostData
MaxProjectRecords == 2

(***************************************************************************)
(* Values.                                                                 *)
(***************************************************************************)
\* JavaScript null, as a record so that it compares with every other value
Null == [null |-> TRUE]

\* a JavaScript string held by a variable that may hold null as well
String(s) == [text |-> s]

\* an object without keys
EmptyObject == [k \in {} |-> TRUE]

\* {key: value} when the value is defined, {} when it is undefined: axios and
\* JSON.stringify drop the keys whose value is undefined
Optional(key, defined, value) == IF defined THEN key :> value ELSE EmptyObject

Min(a, b) == IF a < b THEN a ELSE b

Max(a, b) == IF a > b THEN a ELSE b

\* Math.ceil(a / b) for a >= 0, b > 0
Ceil(a, b) == (a + b - 1) \div b

RemoveAt(s, i) == SubSeq(s, 1, i - 1) \o SubSeq(s, i + 1, Len(s))

\* what the text inputs may hold ('' is the empty input)
ProjectInputs == {"", "p1"}

ServiceInputs == {"", "s2"}

SkuInputs == {"", "k1"}

\* what an <input type="date"> may hold: day d stands for the string
\* 'YYYY-MM-DD' of that day, 0 for the empty string
DateInputs == 0..MaxDay

MsPerDay == 86400000

MsPerHour == 3600000

\* new Date('YYYY-MM-DD').toISOString(): a date-only string is parsed as
\* midnight UTC of that day; the instant is kept in milliseconds
ToISOString(d) == d * MsPerDay

(***************************************************************************)
(* The collaborator behind GET /finops/aggregated-cost: a fixed data set,  *)
(* filtered by the query parameters and cut to the window skip/limit.      *)
(***************************************************************************)
DataGroups ==
    { [service |-> "s1", project |-> "p1", sku |-> "k1",
       time |-> 1 * MsPerDay + 12 * MsPerHour, n |-> 13],
      [service |-> "s2", project |-> "p2", sku |-> "k2",
       time |-> 2 * MsPerDay + 12 * MsPerHour, n |-> 12] }

Matches(g, p) ==
    /\ "service" \in DOMAIN p => g.service = p.service
    /\ "project" \in DOMAIN p => g.project = p.project
    /\ "sku" \in DOMAIN p => g.sku = p.sku
    /\ "start_date" \in DOMAIN p => g.time >= p.start_date
    /\ "end_date" \in DOMAIN p => g.time <= p.end_date

RECURSIVE SumN(_)
SumN(S) == IF S = {} THEN 0
           ELSE LET g == CHOOSE x \in S : TRUE IN g.n + SumN(S \ {g})

MatchCount(p) == SumN({g \in DataGroups : Matches(g, p)})

\* the array returned for params p: its provenance and its length
getAggregatedCostDataList(p) ==
    [for |-> p, length |-> Min(p.limit, Max(0, MatchCount(p) - p.skip))]

\* GET /finops/overview?project=...
getFinopsOverview(p) == [for |-> p]

\* POST /finops/generate-spend-summary: the LLMInsight generated for params p
generateSpendSummary(p) == [insight_type |-> "summary", for |-> p]

\* POST /finops/insights/chat: the text generated for the request
getAIInsight(request) == [text |-> "insight", for |-> request]

\* the rejections an axios call may end in: no response at all, a response
\* with a detail field, a response without one
Failures ==
    { [message |-> "Network Error"],
      [message |-> "Request failed with status code 500", status |-> 500,
       detail |-> "Internal failure"],
      [message |-> "Request failed with status code 404", status |-> 404] }

\* {detail: err.response?.data?.detail || fallback, status_code: err.response?.status}
ApiError(err, fallback) ==
    ("detail" :> (IF "detail" \in DOMAIN err THEN err.detail ELSE fallback))
    @@ Optional("status_code", "status" \in DOMAIN err,
                IF "status" \in DOMAIN err THEN err.status ELSE 0)

(***************************************************************************)
(* State.                                                                  *)
(***************************************************************************)
VARIABLES
    \* DashboardPage: filter fields and pagination
    projectFilter, serviceFilter, skuFilter, startDateFilter, endDateFilter,
    currentPage, totalItems,
    \* useAggregatedCostData: its state and its requests in flight, in the
    \* order they were issued, each [id, params]
    costData, costDataLoading, costDataError, costPending,
    \* useFinopsOverview: its state and its requests in flight
    overview, overviewLoading, overviewError, overviewPending,
    \* DashboardPage: spend summary and snackbar; a request in flight is
    \* [params, shown], shown being the insight displayed when it was issued
    llmSummaryLoading, llmSummaryError, llmInsight, summaryPending,
    snackbarOpen, snackbarMessage, snackbarSeverity,
    \* the cost-record request issued last: [id, params, outcome, before,
    \* retry], before being the costData held when it was issued and retry
    \* telling that it was issued from the Error state with nothing in flight
    latest,
    \* number of edits of input fields and of rejected requests so far
    edits, failures,
    \* AIInsightPanel: its state, the status of its mutation and the requests
    \* in flight, each [request, shown]
    userQuery, insightType, aiResponse,
    panelSnackbarOpen, panelSnackbarMessage, panelSnackbarSeverity,
    mutationStatus, insightPending,
    \* number of insight requests issued so far
    asked,
    \* react-query: the query of each distinct-values hook, the number of
    \* mounted components that call the three hooks, what the hooks returned
    \* on the last call, and the kind of that call when it is the last event
    queries, mounted, received, lastCall,
    \* the overview behind GET /finops/overview: the costs of the records of
    \* the current month, their running total as ingested, the day of the
    \* month, the length of the month, and the metrics computed from them
    records, ingested, dayOfMonth, daysInMonth, metrics,
    \* BigQueryExplorerPage: its state, the requests in flight of each kind
    \* and the number of selections made so far
    datasets, selectedDataset, tables, selectedTable, tableData, tableDataLimit,
    nextPageToken, loadingDatasets, loadingTables, loadingTableData,
    ingestionLoading, explorerError,
    explorerSnackbarOpen, explorerSnackbarMessage, explorerSnackbarSeverity,
    ingestStartDate, ingestEndDate,
    datasetsPending, tablesPending, tableDataPending, ingestPending, selections,
    \* CostCharts: its props and the series it hands to the charts
    chartCostData, chartProjectCostData, charts

filterVars == <<projectFilter, serviceFilter, skuFilter, startDateFilter, endDateFilter>>

pageVars == <<currentPage, totalItems>>

costVars == <<costData, costDataLoading, costDataError, costPending>>

overviewVars == <<overview, overviewLoading, overviewError, overviewPending>>

summaryVars == <<llmSummaryLoading, llmSummaryError, llmInsight, summaryPending>>

snackbarVars == <<snackbarOpen, snackbarMessage, snackbarSeverity>>

budgetVars == <<edits, failures>>

dashboardVars ==
    <<filterVars, pageVars, costVars, overviewVars, summaryVars, snackbarVars,
      latest, budgetVars>>

panelVars ==
    <<userQuery, insightType, aiResponse, panelSnackbarOpen, panelSnackbarMessage,
      panelSnackbarSeverity, mutationStatus, insightPending>>

cacheVars == <<queries, mounted, received, lastCall>>

metricVars == <<records, ingested, dayOfMonth, daysInMonth, metrics>>

browseVars ==
    <<datasets, selectedDataset, tables, selectedTable, tableData, tableDataLimit,
      nextPageToken, loadingDatasets, loadingTables, loadingTableData,
      datasetsPending, tablesPending, tableDataPending, selections>>

ingestVars ==
    <<ingestionLoading, explorerSnackbarOpen, explorerSnackbarMessage,
      explorerSnackbarSeverity, ingestStartDate, ingestEndDate, ingestPending>>

explorerVars == <<browseVars, ingestVars, explorerError>>

chartVars == <<chartCostData, chartProjectCostData, charts>>

vars ==
    <<dashboardVars, panelVars, asked, cacheVars, metricVars, explorerVars,
      chartVars>>

\* what the BigQueryExplorerPage leaves alone, and the same without the
\* count of failures
besideExplorer ==
    <<dashboardVars, panelVars, asked, cacheVars, metricVars, chartVars>>

besideExplorerFailing ==
    <<filterVars, pageVars, costVars, overviewVars, summaryVars, snackbarVars,
      latest, edits, panelVars, asked, cacheVars, metricVars, chartVars>>

itemsPerPage == 10

(***************************************************************************)
(* DashboardPage render: the arguments of the two hooks.                   *)
(***************************************************************************)
\* the params object with the text filters handed over as they are
CostParams_KeepsEmptyStrings(page) ==
    ("skip" :> (page - 1) * itemsPerPage)
    @@ ("limit" :> itemsPerPage)
    @@ ("service" :> serviceFilter)
    @@ ("project" :> projectFilter)
    @@ ("sku" :> skuFilter)
    @@ Optional("start_date", startDateFilter # 0, ToISOString(startDateFilter))
    @@ Optional("end_date", endDateFilter # 0, ToISOString(endDateFilter))

\* the params object handed to useAggregatedCostData on a render with page
CostParams(page) ==
    ("skip" :> (page - 1) * itemsPerPage)
    @@ ("limit" :> itemsPerPage)
    @@ Optional("service", serviceFilter # "", serviceFilter)
    @@ Optional("project", projectFilter # "", projectFilter)
    @@ Optional("sku", skuFilter # "", skuFilter)
    @@ Optional("start_date", startDateFilter # 0, ToISOString(startDateFilter))
    @@ Optional("end_date", endDateFilter # 0, ToISOString(endDateFilter))

\* the argument of useFinopsOverview: projectFilter || undefined
OverviewParams(project) == Optional("project", project # "", project)

\* the argument of finopsApi.generateSpendSummary
SummaryParams ==
    Optional("project", projectFilter # "", projectFilter)
    @@ Optional("start_date", startDateFilter # 0, ToISOString(startDateFilter))
    @@ Optional("end_date", endDateFilter # 0, ToISOString(endDateFilter))

\* if (overviewLoading && costDataLoading) return <LoadingSpinner/>
PageRendered == ~(overviewLoading /\ costDataLoading)

\* count={Math.ceil(totalItems / itemsPerPage)}
PaginationCount == Ceil(totalItems, itemsPerPage)

\* the Pagination is rendered in place of the spinner of the table
PaginationRendered == PageRendered /\ ~costDataLoading

\* the error SnackbarAlert
ErrorAlertRendered ==
    /\ PageRendered
    /\ overviewError # Null \/ costDataError # Null \/ llmSummaryError # Null

\* the estimate without the test of the page: a short page sets the total
\* to its length wherever it is
EstimateTotalItems_AnyPage(data, loading, page, total) ==
    IF ~loading
    THEN IF data.length < itemsPerPage THEN data.length
         ELSE IF data.length = itemsPerPage THEN page * itemsPerPage + 1
         ELSE total
    ELSE total

\* the estimate that assumes nothing beyond a full page
EstimateTotalItems_NoMore(data, loading, page, total) ==
    IF ~loading
    THEN IF data.length < itemsPerPage /\ page = 1 THEN data.length
         ELSE IF data.length = itemsPerPage THEN page * itemsPerPage
         ELSE total
    ELSE total

\* the effect that estimates totalItems, run on a render with these values
EstimateTotalItems(data, loading, page, total) ==
    IF ~loading
    THEN IF data.length < itemsPerPage /\ page = 1 THEN data.length
         ELSE IF data.length = itemsPerPage THEN page * itemsPerPage + 1
         ELSE total
    ELSE total

\* a fetchCostData that leaves the error of the fetch before it
IssueCostRequests_KeepsError(ps) ==
    /\ latest.id + Len(ps) <= MaxCostRequests
    /\ Len(costPending) + Len(ps) <= MaxPending
    /\ costDataLoading' = TRUE
    /\ costDataError' = costDataError
    /\ costPending' = costPending \o
          [k \in 1..Len(ps) |-> [id |-> latest.id + k, params |-> CostParams(ps[k])]]
    /\ latest' = [id |-> latest.id + Len(ps), params |-> CostParams(ps[Len(ps)]),
                  outcome |-> "pending", before |-> costData,
                  retry |-> (costDataError # Null /\ costPending = <<>>)]

\* fetchCostData up to its await, called n times in a row on renders with
\* the pages ps: setLoading(true); setError(null); the request is sent
IssueCostRequests(ps) ==
    /\ latest.id + Len(ps) <= MaxCostRequests
    /\ Len(costPending) + Len(ps) <= MaxPending
    /\ costDataLoading' = TRUE
    /\ costDataError' = Null
    /\ costPending' = costPending \o
          [k \in 1..Len(ps) |-> [id |-> latest.id + k, params |-> CostParams(ps[k])]]
    /\ latest' = [id |-> latest.id + Len(ps), params |-> CostParams(ps[Len(ps)]),
                  outcome |-> "pending", before |-> costData,
                  retry |-> (costDataError # Null /\ costPending = <<>>)]

\* fetchOverview up to its await
IssueOverviewRequest(project) ==
    /\ Len(overviewPending) < MaxPending
    /\ overviewLoading' = TRUE
    /\ overviewError' = Null
    /\ overviewPending' = Append(overviewPending, OverviewParams(project))

(***************************************************************************)
(* react-query: the queries of useDistinctServices, useDistinctProjects    *)
(* and useDistinctSkus, one per queryKey.  Time is kept as the age of the  *)
(* data of a query and as the time left on its garbage-collection timer,   *)
(* both in milliseconds.                                                   *)
(***************************************************************************)
\* staleTime: 5 * 60 * 1000
staleTime == 5 * 60 * 1000

\* cacheTime: 30 * 60 * 1000
cacheTime == 30 * 60 * 1000

\* the queryKeys ['distinctServices'], ['distinctProjects'], ['distinctSkus']
Dimensions == {"service", "project", "sku"}

\* the amounts of time that may pass between two events
TickSteps == {staleTime \div 2, cacheTime}

\* GET /finops/distinct-services, /distinct-projects, /distinct-skus
getDistinctValues(d) ==
    IF d = "service" THEN <<"s1", "s2">>
    ELSE IF d = "project" THEN <<"p1", "p2">>
    ELSE <<"k1", "k2">>

\* no query under the queryKey
NoQuery == [absent |-> TRUE]

\* no garbage-collection timer is running
NoTimer == 0 - 1

\* the query built by the first useQuery of a queryKey, its fetch started
NewQuery ==
    [data |-> Null, age |-> 0, fetching |-> TRUE, gc |-> NoTimer]

\* staleness under the default staleTime of 0: data is stale at once
isStale_NoStaleTime(q) == q.data = Null \/ q.age >= 0

\* a query is stale without data, and once its data is staleTime old
isStale(q) == q.data = Null \/ q.age >= staleTime

\* useQuery on mount: the observer subscribes, which stops the timer, and
\* fetches when the query is stale, unless a fetch is in flight already
Subscribe(q) ==
    IF q = NoQuery THEN NewQuery
    ELSE [q EXCEPT !.fetching = q.fetching \/ isStale(q), !.gc = NoTimer]

\* the list a hook returns: distinctServices || []
HookResult(q) == IF q = NoQuery \/ q.data = Null THEN <<>> ELSE q.data.list

\* the timer of a query is started when its last observer unsubscribes and
\* when a fetch settles without observers
ScheduleGc(q, observers) ==
    IF q # NoQuery /\ observers = 0 THEN [q EXCEPT !.gc = cacheTime] ELSE q

\* DashboardPage mounted: the three hooks have subscribed and fetch
InitCache ==
    /\ queries = [d \in Dimensions |-> NewQuery]
    /\ mounted = 1
    /\ received = [d \in Dimensions |-> <<>>]
    /\ lastCall = "mount"

(***************************************************************************)
(* The Overview Metrics Calculator behind GET /finops/overview.  Amounts   *)
(* are exact fractions [num, den].                                         *)
(***************************************************************************)
\* the costs a record may carry
Costs == {0, 10, 20}

\* the lengths a month may have
MonthLengths == {28, 30}

Fraction(n, d) == [num |-> n, den |-> d]

\* a * k for a fraction a and an integer k
Times(a, k) == Fraction(a.num * k, a.den)

\* a + b for fractions of the same denominator or an integer a
Plus(a, b) == Fraction(a.num * b.den + b.num * a.den, a.den * b.den)

\* a >= b
Geq(a, b) == a.num * b.den >= b.num * a.den

\* a = k for a fraction a and an integer k
Equals(a, k) == a.num = k * a.den

RECURSIVE SumCost(_)
SumCost(rs) == IF rs = <<>> THEN 0 ELSE Head(rs) + SumCost(Tail(rs))

\* the calculator with a projection that leaves out the spend to date
OverviewMetrics_ProjectsRemainderOnly(rs, day, days) ==
    LET mtd == Fraction(SumCost(rs), 1)
        daily == Fraction(SumCost(rs), Max(1, day))
    IN  [mtdSpend |-> mtd,
         dailyBurnRateMtd |-> daily,
         estimatedMonthlyBurnRate |-> Times(daily, days),
         projectedMonthEndSpend |-> Times(daily, days - day)]

\* the calculator dividing by the days that lie before today
OverviewMetrics_DaysBeforeToday(rs, day, days) ==
    LET mtd == Fraction(SumCost(rs), 1)
        daily == Fraction(SumCost(rs), Max(1, day - 1))
    IN  [mtdSpend |-> mtd,
         dailyBurnRateMtd |-> daily,
         estimatedMonthlyBurnRate |-> Times(daily, days),
         projectedMonthEndSpend |-> Plus(mtd, Times(daily, days - day))]

\* the four metrics of the records rs on day `day` of a month of `days` days
OverviewMetrics(rs, day, days) ==
    LET mtd == Fraction(SumCost(rs), 1)
        daily == Fraction(SumCost(rs), Max(1, day))
    IN  [mtdSpend |-> mtd,
         dailyBurnRateMtd |-> daily,
         estimatedMonthlyBurnRate |-> Times(daily, days),
         projectedMonthEndSpend |-> Plus(mtd, Times(daily, days - day))]

\* the first day of a month of 30 days, no record yet
InitMetrics ==
    /\ records = <<>>
    /\ ingested = 0
    /\ dayOfMonth = 1
    /\ daysInMonth = 30
    /\ metrics = OverviewMetrics(<<>>, 1, daysInMonth)

(***************************************************************************)
(* Initial state: DashboardPage mounted, the mount effects of both hooks   *)
(* have run.                                                               *)
(***************************************************************************)
InitDashboard ==
    /\ projectFilter = ""
    /\ serviceFilter = ""
    /\ skuFilter = ""
    /\ startDateFilter = 0
    /\ endDateFilter = 0
    /\ currentPage = 1
    /\ totalItems = 0
    /\ costData = [for |-> EmptyObject, length |-> 0]
    /\ costDataLoading = TRUE
    /\ costDataError = Null
    /\ costPending = <<[id |-> 1, params |-> CostParams(1)]>>
    /\ overview = Null
    /\ overviewLoading = TRUE
    /\ overviewError = Null
    /\ overviewPending = <<OverviewParams("")>>
    /\ llmSummaryLoading = FALSE
    /\ llmSummaryError = Null
    /\ llmInsight = Null
    /\ summaryPending = <<>>
    /\ snackbarOpen = FALSE
    /\ snackbarMessage = ""
    /\ snackbarSeverity = "success"
    /\ latest = [id |-> 1, params |-> CostParams(1), outcome |-> "pending",
                 before |-> [for |-> EmptyObject, length |-> 0],
                 retry |-> FALSE]
    /\ edits = 0
    /\ failures = 0

(***************************************************************************)
(* BigQueryExplorerPage: the BigQuery project behind it and the page as    *)
(* mounted.  The project has two datasets, listed on one page.             *)
(***************************************************************************)
DatasetIds == <<"d1", "d2">>

LimitInputs == {5, 10}

IngestDateInputs == {"", "2024-01-01"}

\* GET /finops/bigquery/datasets
listBigQueryDatasets == [datasets |-> DatasetIds, next_page_token |-> Null]

\* GET /finops/bigquery/datasets/{datasetId}/tables
listBigQueryTables(datasetId) ==
    IF datasetId = "d1" THEN <<"t1", "t2">> ELSE <<"t3">>

\* the number of rows of a table
RowCount(tableId) == IF tableId = "t1" THEN 12 ELSE IF tableId = "t2" THEN 3 ELSE 0

Elements(seq) == {seq[i] : i \in 1..Len(seq)}

TableExists(datasetId, tableId) == tableId \in Elements(listBigQueryTables(datasetId))

\* GET /finops/bigquery/datasets/{datasetId}/tables/{tableId}/data?limit=
\* the rows are kept as the table they are of and their number
readBigQueryTableData(datasetId, tableId, limit) ==
    [for |-> [dataset |-> datasetId, table |-> tableId],
     length |-> Min(limit, RowCount(tableId))]

\* useState<BigQueryTableDataRow[]>([])
NoRows == [for |-> EmptyObject, length |-> 0]

\* the answer of the backend for a table that the dataset does not have
TableNotFound == [status |-> 404, detail |-> "Table not found"]

ingestDatasetId == "finopsDS"

ingestTableId == "gcp_billing_export_resource_v1_01F185_0AA423_C9BA8A"

\* POST /finops/bigquery/ingest-billing-data
ingestBigQueryBillingData(params) == [message |-> "Ingestion started", for |-> params]

InitExplorer ==
    /\ datasets = <<>>
    /\ selectedDataset = ""
    /\ tables = <<>>
    /\ selectedTable = ""
    /\ tableData = NoRows
    /\ tableDataLimit = 10
    /\ nextPageToken = Null
    /\ loadingDatasets = TRUE
    /\ loadingTables = FALSE
    /\ loadingTableData = FALSE
    /\ ingestionLoading = FALSE
    /\ explorerError = Null
    /\ explorerSnackbarOpen = FALSE
    /\ explorerSnackbarMessage = ""
    /\ explorerSnackbarSeverity = "success"
    /\ ingestStartDate = ""
    /\ ingestEndDate = ""
    /\ datasetsPending = 1
    /\ tablesPending = <<>>
    /\ tableDataPending = <<>>
    /\ ingestPending = <<>>
    /\ selections = 0

(***************************************************************************)
(* CostCharts: the series of its three charts, computed from its props.    *)
(* A Map is kept as the sequence of its entries in the order of insertion; *)
(* a time_period is the number of hours since 2024-01-01T00:00, and the    *)
(* browser is in the en-US locale and in UTC.                              *)
(***************************************************************************)
ChartCosts == {10, 20}

TimePeriods == {0, 12, 30}

\* the records handed over as costData
CostRecords ==
    [service : {"s1", "s2"}, project : {"p1"}, time_period : TimePeriods,
     cost : ChartCosts]

\* the records handed over as projectCostData: with a project, with an
\* empty one and with none
ProjectRecords ==
    [service : {"s1"}, project : {"", "p1"}, time_period : {0}, cost : ChartCosts]
    \cup [service : {"s1"}, time_period : {0}, cost : ChartCosts]

HoursPerDay == 24

\* new Date(time_period).toLocaleDateString(): "M/D/YYYY", kept as <<M, D, YYYY>>
toLocaleDateString(time_period) == <<1, time_period \div HoursPerDay + 1, 2024>>

\* map.get(key) || 0
MapGet(map, key) ==
    IF \E i \in 1..Len(map) : map[i].key = key
    THEN LET i == CHOOSE i \in 1..Len(map) : map[i].key = key
         IN  IF map[i].value = 0 THEN 0 ELSE map[i].value
    ELSE 0

\* map.set(key, value)
MapSet(map, key, value) ==
    IF \E i \in 1..Len(map) : map[i].key = key
    THEN [i \in 1..Len(map) |->
            IF map[i].key = key THEN [key |-> key, value |-> value] ELSE map[i]]
    ELSE Append(map, [key |-> key, value |-> value])

\* a body of the forEach that forgets what the Map holds for the key
AddCost_Overwrites(map, key, cost) == MapSet(map, key, cost)

\* the body of the forEach: map.set(key, (map.get(key) || 0) + item.cost)
AddCost(map, key, cost) == MapSet(map, key, MapGet(map, key) + cost)

\* items.forEach over the entries [key, cost] of the items
RECURSIVE CostMap(_, _)
CostMap(map, entries) ==
    IF entries = <<>> THEN map
    ELSE CostMap(AddCost(map, Head(entries).key, Head(entries).cost), Tail(entries))

serviceCostMap(costData_) ==
    CostMap(<<>>, [i \in 1..Len(costData_) |->
                      [key |-> costData_[i].service, cost |-> costData_[i].cost]])

\* if (item.project)
HasProject(item) == "project" \in DOMAIN item /\ item.project # ""

projectCostMap(projectCostData) ==
    LET items == SelectSeq(projectCostData, HasProject)
    IN  CostMap(<<>>, [i \in 1..Len(items) |->
                         [key |-> items[i].project, cost |-> items[i].cost]])

dailyCostMap(costData_) ==
    CostMap(<<>>, [i \in 1..Len(costData_) |->
                      [key |-> toLocaleDateString(costData_[i].time_period),
                       cost |-> costData_[i].cost]])

\* Array.from(map.keys()), Array.from(map.values())
Keys(map) == [i \in 1..Len(map) |-> map[i].key]

Values(map) == [i \in 1..Len(map) |-> map[i].value]

\* new Date(year, month - 1, day).getTime(), in days
DateOrder(date) == (date[3] * 12 + (date[1] - 1)) * 31 + date[2]

\* dates.sort(by the time of the date)
RECURSIVE SortDates(_)
SortDates(dates) ==
    IF dates = <<>> THEN <<>>
    ELSE LET first == CHOOSE i \in 1..Len(dates) :
                          \A j \in 1..Len(dates) :
                              /\ DateOrder(dates[i]) <= DateOrder(dates[j])
                              /\ DateOrder(dates[i]) = DateOrder(dates[j]) => i <= j
         IN  <<dates[first]>> \o SortDates(RemoveAt(dates, first))

\* the series of the three charts
CostCharts(costData_, projectCostData) ==
    LET sortedDates == SortDates(Keys(dailyCostMap(costData_)))
    IN  [serviceNames |-> Keys(serviceCostMap(costData_)),
         serviceCosts |-> Values(serviceCostMap(costData_)),
         projectNames |-> Keys(projectCostMap(projectCostData)),
         projectCosts |-> Values(projectCostMap(projectCostData)),
         sortedDates |-> sortedDates,
         dailyCosts |-> [i \in 1..Len(sortedDates) |->
                            MapGet(dailyCostMap(costData_), sortedDates[i])]]

\* the CostCharts rendered with no records
InitCharts ==
    /\ chartCostData = <<>>
    /\ chartProjectCostData = <<>>
    /\ charts = CostCharts(<<>>, <<>>)

\* AIInsightPanel mounted
InitPanel ==
    /\ userQuery = ""
    /\ insightType = "natural_query"
    /\ aiResponse = Null
    /\ panelSnackbarOpen = FALSE
    /\ panelSnackbarMessage = ""
    /\ panelSnackbarSeverity = "success"
    /\ mutationStatus = "idle"
    /\ insightPending = <<>>

Init ==
    /\ InitDashboard
    /\ InitPanel
    /\ asked = 0
    /\ InitCache
    /\ InitMetrics
    /\ InitExplorer
    /\ InitCharts

(***************************************************************************)
(* Filter inputs.                                                          *)
(***************************************************************************)
\* onChange of the Project ID field; useFinopsOverview's effect depends on
\* fetchOverview, which depends on project, so it refetches the overview
SetProjectFilter(v) ==
    /\ PageRendered
    /\ v # projectFilter
    /\ edits < MaxEdits
    /\ projectFilter' = v
    /\ IssueOverviewRequest(v)
    /\ edits' = edits + 1
    /\ UNCHANGED <<serviceFilter, skuFilter, startDateFilter, endDateFilter,
                   pageVars, costVars, overview, summaryVars, snackbarVars,
                   latest, failures,
                   panelVars, asked>>
    /\ UNCHANGED <<cacheVars, metricVars, explorerVars, chartVars>>

SetServiceFilter(v) ==
    /\ PageRendered
    /\ v # serviceFilter
    /\ edits < MaxEdits
    /\ serviceFilter' = v
    /\ edits' = edits + 1
    /\ UNCHANGED <<projectFilter, skuFilter, startDateFilter, endDateFilter,
                   pageVars, costVars, overviewVars, summaryVars, snackbarVars,
                   latest, failures,
                   panelVars, asked>>
    /\ UNCHANGED <<cacheVars, metricVars, explorerVars, chartVars>>

SetSkuFilter(v) ==
    /\ PageRendered
    /\ v # skuFilter
    /\ edits < MaxEdits
    /\ skuFilter' = v
    /\ edits' = edits + 1
    /\ UNCHANGED <<projectFilter, serviceFilter, startDateFilter, endDateFilter,
                   pageVars, costVars, overviewVars, summaryVars, snackbarVars,
                   latest, failures,
                   panelVars, asked>>
    /\ UNCHANGED <<cacheVars, metricVars, explorerVars, chartVars>>

SetStartDateFilter(v) ==
    /\ PageRendered
    /\ v # startDateFilter
    /\ edits < MaxEdits
    /\ startDateFilter' = v
    /\ edits' = edits + 1
    /\ UNCHANGED <<projectFilter, serviceFilter, skuFilter, endDateFilter,
                   pageVars, costVars, overviewVars, summaryVars, snackbarVars,
                   latest, failures,
                   panelVars, asked>>
    /\ UNCHANGED <<cacheVars, metricVars, explorerVars, chartVars>>

SetEndDateFilter(v) ==
    /\ PageRendered
    /\ v # endDateFilter
    /\ edits < MaxEdits
    /\ endDateFilter' = v
    /\ edits' = edits + 1
    /\ UNCHANGED <<projectFilter, serviceFilter, skuFilter, startDateFilter,
                   pageVars, costVars, overviewVars, summaryVars, snackbarVars,
                   latest, failures,
                   panelVars, asked>>
    /\ UNCHANGED <<cacheVars, metricVars, explorerVars, chartVars>>

(***************************************************************************)
(* Apply Filters, page change, error dismissal.                            *)
(***************************************************************************)
\* setCurrentPage(1); refetchCostData(); refetchOverview(): the refetch uses
\* the params of the render the handler belongs to; the render that follows
\* has a new skip when currentPage was not 1, and the hook's effect fetches
\* again
handleApplyFilters ==
    /\ PageRendered
    /\ currentPage' = 1
    /\ IssueCostRequests(IF currentPage = 1 THEN <<currentPage>>
                         ELSE <<currentPage, 1>>)
    /\ IssueOverviewRequest(projectFilter)
    /\ UNCHANGED <<filterVars, totalItems, costData, overview, summaryVars,
                   snackbarVars, budgetVars,
                   panelVars, asked>>
    /\ UNCHANGED <<cacheVars, metricVars, explorerVars, chartVars>>

\* setCurrentPage(value): the next render has a new skip, the hook's effect
\* fetches, and the estimate effect runs on that render's values (the old
\* costData, loading still false)
handlePageChange(value) ==
    /\ PaginationRendered
    /\ value \in 1..PaginationCount
    /\ value # currentPage
    /\ currentPage' = value
    /\ IssueCostRequests(<<value>>)
    /\ totalItems' = EstimateTotalItems(costData, costDataLoading, value, totalItems)
    /\ UNCHANGED <<filterVars, costData, overviewVars, summaryVars, snackbarVars,
                   budgetVars,
                   panelVars, asked>>
    /\ UNCHANGED <<cacheVars, metricVars, explorerVars, chartVars>>

\* onClose of the error SnackbarAlert:
\* overviewError ? refetchOverview() : null; costDataError ? refetchCostData() : null;
\* llmSummaryError ? setLlmSummaryError(null) : null
ErrorAlertClose ==
    /\ ErrorAlertRendered
    /\ IF costDataError # Null
       THEN IssueCostRequests(<<currentPage>>)
       ELSE UNCHANGED <<costDataLoading, costDataError, costPending, latest>>
    /\ IF overviewError # Null
       THEN IssueOverviewRequest(projectFilter)
       ELSE UNCHANGED <<overviewLoading, overviewError, overviewPending>>
    /\ llmSummaryError' = Null
    /\ UNCHANGED <<filterVars, pageVars, costData, overview, llmSummaryLoading,
                   llmInsight, summaryPending, snackbarVars, budgetVars,
                   panelVars, asked>>
    /\ UNCHANGED <<cacheVars, metricVars, explorerVars, chartVars>>

(***************************************************************************)
(* Settling of the requests of the two hooks.                              *)
(***************************************************************************)
Settled(i, outcome) ==
    IF costPending[i].id = latest.id THEN [latest EXCEPT !.outcome = outcome]
    ELSE latest

\* fetchCostData after the await: setCostData(data); finally setLoading(false);
\* costData changed, so the estimate effect runs
CostFetchResolve(i) ==
    /\ i \in 1..Len(costPending)
    /\ costData' = getAggregatedCostDataList(costPending[i].params)
    /\ costDataLoading' = FALSE
    /\ costPending' = RemoveAt(costPending, i)
    /\ totalItems' = EstimateTotalItems(costData', FALSE, currentPage, totalItems)
    /\ latest' = Settled(i, "ok")
    /\ UNCHANGED <<filterVars, currentPage, costDataError, overviewVars,
                   summaryVars, snackbarVars, budgetVars,
                   panelVars, asked>>
    /\ UNCHANGED <<cacheVars, metricVars, explorerVars, chartVars>>

\* the catch of a fetch that empties the records it could not refresh
CostFetchReject_BlanksTable(i, err) ==
    /\ i \in 1..Len(costPending)
    /\ failures < MaxFailures
    /\ failures' = failures + 1
    /\ costData' = [for |-> costPending[i].params, length |-> 0]
    /\ costDataError' = ApiError(err, "Failed to fetch aggregated cost data.")
    /\ costDataLoading' = FALSE
    /\ costPending' = RemoveAt(costPending, i)
    /\ totalItems' = EstimateTotalItems(costData', FALSE, currentPage, totalItems)
    /\ latest' = Settled(i, "failed")
    /\ UNCHANGED <<filterVars, currentPage, overviewVars, summaryVars,
                   snackbarVars, edits,
                   panelVars, asked>>
    /\ UNCHANGED <<cacheVars, metricVars, explorerVars, chartVars>>

\* fetchCostData's catch: setError({...}); finally setLoading(false); the
\* estimate effect runs when loading changed
CostFetchReject(i, err) ==
    /\ i \in 1..Len(costPending)
    /\ failures < MaxFailures
    /\ failures' = failures + 1
    /\ costDataError' = ApiError(err, "Failed to fetch aggregated cost data.")
    /\ costDataLoading' = FALSE
    /\ costPending' = RemoveAt(costPending, i)
    /\ totalItems' = IF costDataLoading
                     THEN EstimateTotalItems(costData, FALSE, currentPage, totalItems)
                     ELSE totalItems
    /\ latest' = Settled(i, "failed")
    /\ UNCHANGED <<filterVars, currentPage, costData, overviewVars, summaryVars,
                   snackbarVars, edits,
                   panelVars, asked>>
    /\ UNCHANGED <<cacheVars, metricVars, explorerVars, chartVars>>

\* a fetchOverview without the finally
OverviewFetchResolve_NoFinally(i) ==
    /\ i \in 1..Len(overviewPending)
    /\ overview' = getFinopsOverview(overviewPending[i])
    /\ overviewPending' = RemoveAt(overviewPending, i)
    /\ UNCHANGED <<filterVars, pageVars, costVars, overviewLoading, overviewError,
                   summaryVars, snackbarVars, latest, budgetVars,
                   panelVars, asked>>
    /\ UNCHANGED <<cacheVars, metricVars, explorerVars, chartVars>>

\* fetchOverview after the await: setOverview(data); finally setLoading(false)
OverviewFetchResolve(i) ==
    /\ i \in 1..Len(overviewPending)
    /\ overview' = getFinopsOverview(overviewPending[i])
    /\ overviewLoading' = FALSE
    /\ overviewPending' = RemoveAt(overviewPending, i)
    /\ UNCHANGED <<filterVars, pageVars, costVars, overviewError, summaryVars,
                   snackbarVars, latest, budgetVars,
                   panelVars, asked>>
    /\ UNCHANGED <<cacheVars, metricVars, explorerVars, chartVars>>

\* fetchOverview's catch
OverviewFetchReject(i, err) ==
    /\ i \in 1..Len(overviewPending)
    /\ failures < MaxFailures
    /\ failures' = failures + 1
    /\ overviewError' = ApiError(err, "Failed to fetch FinOps overview.")
    /\ overviewLoading' = FALSE
    /\ overviewPending' = RemoveAt(overviewPending, i)
    /\ UNCHANGED <<filterVars, pageVars, costVars, overview, summaryVars,
                   snackbarVars, latest, edits,
                   panelVars, asked>>
    /\ UNCHANGED <<cacheVars, metricVars, explorerVars, chartVars>>

(***************************************************************************)
(* The record fetching of the dashboard: filters, pagination, both hooks.  *)
(***************************************************************************)
Next ==
    \/ \E v \in ProjectInputs : SetProjectFilter(v)
    \/ \E v \in ServiceInputs : SetServiceFilter(v)
    \/ \E v \in SkuInputs : SetSkuFilter(v)
    \/ \E v \in DateInputs : SetStartDateFilter(v)
    \/ \E v \in DateInputs : SetEndDateFilter(v)
    \/ handleApplyFilters
    \/ \E value \in 1..MaxPage : handlePageChange(value)
    \/ ErrorAlertClose
    \/ \E i \in 1..MaxPending : CostFetchResolve(i)
    \/ \E i \in 1..MaxPending, err \in Failures : CostFetchReject(i, err)
    \/ \E i \in 1..MaxPending : OverviewFetchResolve(i)
    \/ \E i \in 1..MaxPending, err \in Failures : OverviewFetchReject(i, err)

Spec == Init /\ [][Next]_vars

\* every request that was issued is answered: some request in flight settles
CostFetchSettle ==
    \/ \E i \in 1..MaxPending : CostFetchResolve(i)
    \/ \E i \in 1..MaxPending, err \in Failures : CostFetchReject(i, err)

OverviewFetchSettle ==
    \/ \E i \in 1..MaxPending : OverviewFetchResolve(i)
    \/ \E i \in 1..MaxPending, err \in Failures : OverviewFetchReject(i, err)

NextLoading ==
    \/ \E v \in ProjectInputs : SetProjectFilter(v)
    \/ handleApplyFilters
    \/ \E value \in 1..MaxPage : handlePageChange(value)
    \/ ErrorAlertClose
    \/ CostFetchSettle
    \/ OverviewFetchSettle

SpecLoading ==
    /\ Init /\ [][NextLoading]_vars
    /\ WF_vars(CostFetchSettle)
    /\ WF_vars(OverviewFetchSettle)

(***************************************************************************)
(* Spend summary of the DashboardPage.                                     *)
(***************************************************************************)
\* generateSummary up to its await; the button is disabled while
\* llmSummaryLoading
generateSummary ==
    /\ PageRendered
    /\ ~llmSummaryLoading
    /\ asked < MaxInsightRequests
    /\ asked' = asked + 1
    /\ llmSummaryLoading' = TRUE
    /\ llmSummaryError' = Null
    /\ llmInsight' = Null
    /\ summaryPending' =
          Append(summaryPending, [params |-> SummaryParams, shown |-> llmInsight])
    /\ UNCHANGED <<filterVars, pageVars, costVars, overviewVars, snackbarVars,
                   latest, budgetVars, panelVars>>
    /\ UNCHANGED <<cacheVars, metricVars, explorerVars, chartVars>>

\* generateSummary after the await, on success
SummaryResolve(i) ==
    /\ i \in 1..Len(summaryPending)
    /\ llmInsight' = generateSpendSummary(summaryPending[i].params)
    /\ snackbarMessage' = "AI spend summary generated successfully!"
    /\ snackbarSeverity' = "success"
    /\ snackbarOpen' = TRUE
    /\ llmSummaryLoading' = FALSE
    /\ summaryPending' = RemoveAt(summaryPending, i)
    /\ UNCHANGED <<filterVars, pageVars, costVars, overviewVars, llmSummaryError,
                   latest, budgetVars, panelVars, asked>>
    /\ UNCHANGED <<cacheVars, metricVars, explorerVars, chartVars>>

\* generateSummary's catch
SummaryReject(i, err) ==
    /\ i \in 1..Len(summaryPending)
    /\ failures < MaxFailures
    /\ failures' = failures + 1
    /\ llmSummaryError' =
          String(ApiError(err, "Failed to generate AI spend summary.").detail)
    /\ snackbarMessage' = ApiError(err, "Failed to generate AI spend summary.").detail
    /\ snackbarSeverity' = "error"
    /\ snackbarOpen' = TRUE
    /\ llmSummaryLoading' = FALSE
    /\ summaryPending' = RemoveAt(summaryPending, i)
    /\ UNCHANGED <<filterVars, pageVars, costVars, overviewVars, llmInsight,
                   latest, edits, panelVars, asked>>
    /\ UNCHANGED <<cacheVars, metricVars, explorerVars, chartVars>>

\* onClose of the snackbar: the close button, the timeout or a click away
handleSnackbarClose(reason) ==
    /\ PageRendered
    /\ snackbarOpen
    /\ snackbarOpen' = (reason = "clickaway")
    /\ UNCHANGED <<filterVars, pageVars, costVars, overviewVars, summaryVars,
                   snackbarMessage, snackbarSeverity, latest, budgetVars,
                   panelVars, asked>>
    /\ UNCHANGED <<cacheVars, metricVars, explorerVars, chartVars>>

(***************************************************************************)
(* AIInsightPanel, mounted with the filters of the dashboard as props.     *)
(***************************************************************************)
InsightTypes == {"natural_query", "summary", "anomaly", "prediction", "recommendation"}

\* what the question field may hold
QueryInputs == {"", " ", "why"}

\* isPending of useMutation
isPending == mutationStatus = "pending"

\* onChange of the question field, rendered for natural_query only
SetUserQuery(v) ==
    /\ insightType = "natural_query"
    /\ v # userQuery
    /\ edits < MaxEdits
    /\ edits' = edits + 1
    /\ userQuery' = v
    /\ UNCHANGED <<filterVars, pageVars, costVars, overviewVars, summaryVars,
                   snackbarVars, latest, failures, insightType, aiResponse, panelSnackbarOpen,
                   panelSnackbarMessage, panelSnackbarSeverity, mutationStatus,
                   insightPending, asked>>
    /\ UNCHANGED <<cacheVars, metricVars, explorerVars, chartVars>>

\* onChange of the Insight Type select
SetInsightType(t) ==
    /\ t # insightType
    /\ edits < MaxEdits
    /\ edits' = edits + 1
    /\ insightType' = t
    /\ UNCHANGED <<filterVars, pageVars, costVars, overviewVars, summaryVars,
                   snackbarVars, latest, failures, userQuery, aiResponse, panelSnackbarOpen,
                   panelSnackbarMessage, panelSnackbarSeverity, mutationStatus,
                   insightPending, asked>>
    /\ UNCHANGED <<cacheVars, metricVars, explorerVars, chartVars>>

\* the request body with the question sent as it is, empty or not
RequestBody_KeepsEmptyQuery ==
    ("query" :> userQuery)
    @@ ("insight_type" :> insightType)
    @@ Optional("project", projectFilter # "", projectFilter)
    @@ Optional("service", serviceFilter # "", serviceFilter)
    @@ Optional("sku", skuFilter # "", skuFilter)
    @@ Optional("start_date", startDateFilter # 0, startDateFilter)
    @@ Optional("end_date", endDateFilter # 0, endDateFilter)

\* the request body built by handleGenerateInsight; the date props are the
\* strings of the date inputs as they are
RequestBody ==
    Optional("query", userQuery # "", userQuery)
    @@ ("insight_type" :> insightType)
    @@ Optional("project", projectFilter # "", projectFilter)
    @@ Optional("service", serviceFilter # "", serviceFilter)
    @@ Optional("sku", skuFilter # "", skuFilter)
    @@ Optional("start_date", startDateFilter # 0, startDateFilter)
    @@ Optional("end_date", endDateFilter # 0, endDateFilter)

\* the message of the snackbar when the question is missing
ValidationMessage == "Please enter a query for natural language insights."

\* the handler with a rejection that clears the displayed response as well
handleGenerateInsight_ClearsResponse ==
    /\ ~isPending
    /\ IF userQuery = "" /\ insightType = "natural_query"
       THEN /\ panelSnackbarMessage' = ValidationMessage
            /\ panelSnackbarSeverity' = "error"
            /\ panelSnackbarOpen' = TRUE
            /\ aiResponse' = Null
            /\ UNCHANGED <<mutationStatus, insightPending, asked>>
       ELSE /\ asked < MaxInsightRequests
            /\ asked' = asked + 1
            /\ mutationStatus' = "pending"
            /\ insightPending' =
                  Append(insightPending, [request |-> RequestBody, shown |-> aiResponse])
            /\ UNCHANGED <<panelSnackbarOpen, panelSnackbarMessage,
                           panelSnackbarSeverity, aiResponse>>
    /\ UNCHANGED <<dashboardVars, userQuery, insightType>>
    /\ UNCHANGED <<cacheVars, metricVars, explorerVars, chartVars>>

\* onClick of Generate AI Insight, disabled while the mutation is pending
handleGenerateInsight ==
    /\ ~isPending
    /\ IF userQuery = "" /\ insightType = "natural_query"
       THEN /\ panelSnackbarMessage' = ValidationMessage
            /\ panelSnackbarSeverity' = "error"
            /\ panelSnackbarOpen' = TRUE
            /\ UNCHANGED <<mutationStatus, insightPending, asked>>
       ELSE /\ asked < MaxInsightRequests
            /\ asked' = asked + 1
            /\ mutationStatus' = "pending"
            /\ insightPending' =
                  Append(insightPending, [request |-> RequestBody, shown |-> aiResponse])
            /\ UNCHANGED <<panelSnackbarOpen, panelSnackbarMessage, panelSnackbarSeverity>>
    /\ UNCHANGED <<dashboardVars, userQuery, insightType, aiResponse>>
    /\ UNCHANGED <<cacheVars, metricVars, explorerVars, chartVars>>

\* onSuccess of the mutation
InsightResolve(i) ==
    /\ i \in 1..Len(insightPending)
    /\ aiResponse' = getAIInsight(insightPending[i].request)
    /\ panelSnackbarMessage' = "AI insight generated successfully!"
    /\ panelSnackbarSeverity' = "success"
    /\ panelSnackbarOpen' = TRUE
    /\ mutationStatus' = "success"
    /\ insightPending' = RemoveAt(insightPending, i)
    /\ UNCHANGED <<dashboardVars, userQuery, insightType, asked>>
    /\ UNCHANGED <<cacheVars, metricVars, explorerVars, chartVars>>

\* onError of the mutation: setAiResponse(`Error: ${err.message}`)
InsightReject(i, err) ==
    /\ i \in 1..Len(insightPending)
    /\ failures < MaxFailures
    /\ failures' = failures + 1
    /\ aiResponse' = String("Error: " \o err.message)
    /\ panelSnackbarMessage' = "Failed to get AI insight: " \o err.message
    /\ panelSnackbarSeverity' = "error"
    /\ panelSnackbarOpen' = TRUE
    /\ mutationStatus' = "error"
    /\ insightPending' = RemoveAt(insightPending, i)
    /\ UNCHANGED <<filterVars, pageVars, costVars, overviewVars, summaryVars,
                   snackbarVars, latest, edits, userQuery, insightType, asked>>
    /\ UNCHANGED <<cacheVars, metricVars, explorerVars, chartVars>>

\* onClose of the panel's snackbar
handlePanelSnackbarClose ==
    /\ panelSnackbarOpen
    /\ panelSnackbarOpen' = FALSE
    /\ UNCHANGED <<dashboardVars, userQuery, insightType, aiResponse,
                   panelSnackbarMessage, panelSnackbarSeverity, mutationStatus,
                   insightPending, asked>>
    /\ UNCHANGED <<cacheVars, metricVars, explorerVars, chartVars>>

(***************************************************************************)
(* The spend summary of the dashboard, next to the filter inputs it reads. *)
(***************************************************************************)
NextSummary ==
    \/ \E v \in ProjectInputs : SetProjectFilter(v)
    \/ \E v \in DateInputs : SetStartDateFilter(v)
    \/ \E v \in DateInputs : SetEndDateFilter(v)
    \/ \E i \in 1..MaxPending : CostFetchResolve(i)
    \/ \E i \in 1..MaxPending : OverviewFetchResolve(i)
    \/ ErrorAlertClose
    \/ generateSummary
    \/ \E i \in 1..MaxPending : SummaryResolve(i)
    \/ \E i \in 1..MaxPending, err \in Failures : SummaryReject(i, err)
    \/ \E reason \in {"clickaway", "timeout"} : handleSnackbarClose(reason)

SpecSummary == Init /\ [][NextSummary]_vars

(***************************************************************************)
(* The AIInsightPanel, next to the filter inputs it reads.                 *)
(***************************************************************************)
NextPanel ==
    \/ \E v \in ProjectInputs : SetProjectFilter(v)
    \/ \E v \in ServiceInputs : SetServiceFilter(v)
    \/ \E v \in SkuInputs : SetSkuFilter(v)
    \/ \E v \in DateInputs : SetStartDateFilter(v)
    \/ \E v \in DateInputs : SetEndDateFilter(v)
    \/ \E i \in 1..MaxPending : OverviewFetchResolve(i)
    \/ \E v \in QueryInputs : SetUserQuery(v)
    \/ \E t \in InsightTypes : SetInsightType(t)
    \/ handleGenerateInsight
    \/ \E i \in 1..MaxPending : InsightResolve(i)
    \/ \E i \in 1..MaxPending, err \in Failures : InsightReject(i, err)
    \/ handlePanelSnackbarClose

SpecPanel == Init /\ [][NextPanel]_vars

\* both kinds of insight request together
NextInsight == NextSummary \/ NextPanel

SpecInsight == Init /\ [][NextInsight]_vars

(***************************************************************************)
(* The distinct-values hooks: components that call them mount, render and  *)
(* unmount, the window regains focus, fetches settle, time passes.         *)
(***************************************************************************)
\* a component calling the three hooks mounts
MountPage ==
    /\ mounted < MaxCallers
    /\ mounted' = mounted + 1
    /\ queries' = [d \in Dimensions |-> Subscribe(queries[d])]
    /\ received' = [d \in Dimensions |-> HookResult(queries[d])]
    /\ lastCall' = "mount"
    /\ UNCHANGED <<dashboardVars, panelVars, asked>>
    /\ UNCHANGED <<metricVars, explorerVars, chartVars>>

\* a mounted component renders again and calls the three hooks
Rerender ==
    /\ mounted > 0
    /\ received' = [d \in Dimensions |-> HookResult(queries[d])]
    /\ lastCall' = "render"
    /\ UNCHANGED <<dashboardVars, panelVars, asked, queries, mounted>>
    /\ UNCHANGED <<metricVars, explorerVars, chartVars>>

\* a component calling the three hooks unmounts
UnmountPage ==
    /\ mounted > 0
    /\ mounted' = mounted - 1
    /\ queries' = [d \in Dimensions |-> ScheduleGc(queries[d], mounted')]
    /\ lastCall' = "none"
    /\ UNCHANGED <<dashboardVars, panelVars, asked, received>>
    /\ UNCHANGED <<metricVars, explorerVars, chartVars>>

\* refetchOnWindowFocus: the observed queries that are stale fetch
WindowFocus ==
    /\ mounted > 0
    /\ queries' = [d \in Dimensions |->
                     IF queries[d] # NoQuery
                     THEN [queries[d] EXCEPT
                             !.fetching = queries[d].fetching \/ isStale(queries[d])]
                     ELSE queries[d]]
    /\ lastCall' = "none"
    /\ UNCHANGED <<dashboardVars, panelVars, asked, mounted, received>>
    /\ UNCHANGED <<metricVars, explorerVars, chartVars>>

\* the queryFn of dimension d resolves; the observers render with the data
DistinctFetchResolve(d) ==
    /\ queries[d] # NoQuery
    /\ queries[d].fetching
    /\ queries' = [queries EXCEPT ![d] =
                     ScheduleGc([data |-> [list |-> getDistinctValues(d)], age |-> 0,
                                 fetching |-> FALSE, gc |-> NoTimer],
                                mounted)]
    /\ received' = IF mounted > 0
                   THEN [received EXCEPT ![d] = getDistinctValues(d)]
                   ELSE received
    /\ lastCall' = "none"
    /\ UNCHANGED <<dashboardVars, panelVars, asked, mounted>>
    /\ UNCHANGED <<metricVars, explorerVars, chartVars>>

\* the queryFn of dimension d rejects for the last time: the data is kept
DistinctFetchReject(d) ==
    /\ queries[d] # NoQuery
    /\ queries[d].fetching
    /\ failures < MaxFailures
    /\ failures' = failures + 1
    /\ queries' = [queries EXCEPT ![d] =
                     ScheduleGc([queries[d] EXCEPT !.fetching = FALSE],
                                mounted)]
    /\ lastCall' = "none"
    /\ UNCHANGED <<filterVars, pageVars, costVars, overviewVars, summaryVars,
                   snackbarVars, latest, edits, panelVars, asked, mounted, received>>
    /\ UNCHANGED <<metricVars, explorerVars, chartVars>>

\* a query after ms milliseconds: its data is older, and its timer, when it
\* runs out, removes the query if it has no observer and no fetch in flight
Elapse(q, ms) ==
    IF q = NoQuery THEN q
    ELSE LET aged == [q EXCEPT !.age = IF q.data = Null THEN 0
                                       ELSE Min(q.age + ms, cacheTime)]
         IN  IF q.gc = NoTimer THEN aged
             ELSE IF q.gc > ms THEN [aged EXCEPT !.gc = q.gc - ms]
             ELSE IF mounted = 0 /\ ~q.fetching THEN NoQuery
             ELSE [aged EXCEPT !.gc = NoTimer]

\* ms milliseconds pass
Tick(ms) ==
    /\ queries' = [d \in Dimensions |-> Elapse(queries[d], ms)]
    /\ lastCall' = "none"
    /\ UNCHANGED <<dashboardVars, panelVars, asked, mounted, received>>
    /\ UNCHANGED <<metricVars, explorerVars, chartVars>>

NextCache ==
    \/ MountPage
    \/ Rerender
    \/ UnmountPage
    \/ WindowFocus
    \/ \E d \in Dimensions : DistinctFetchResolve(d)
    \/ \E d \in Dimensions : DistinctFetchReject(d)
    \/ \E ms \in TickSteps : Tick(ms)

SpecCache == Init /\ [][NextCache]_vars

(***************************************************************************)
(* The overview: records of the month come in, days pass, and the metrics  *)
(* are recomputed whenever the window of records changes.                  *)
(***************************************************************************)
\* a record of today with this cost is ingested
AddRecord(cost) ==
    /\ Len(records) < MaxRecords
    /\ records' = Append(records, cost)
    /\ ingested' = ingested + cost
    /\ metrics' = OverviewMetrics(records', dayOfMonth, daysInMonth)
    /\ UNCHANGED <<explorerVars, chartVars, dashboardVars, panelVars, asked, cacheVars, dayOfMonth, daysInMonth>>

\* the next day of the month begins
NextDay ==
    /\ dayOfMonth < daysInMonth
    /\ dayOfMonth' = dayOfMonth + 1
    /\ metrics' = OverviewMetrics(records, dayOfMonth', daysInMonth)
    /\ UNCHANGED <<explorerVars, chartVars, dashboardVars, panelVars, asked, cacheVars, records, ingested,
                   daysInMonth>>

\* the next month begins: its window is empty
NextMonth ==
    /\ dayOfMonth = daysInMonth
    /\ \E days \in MonthLengths :
          /\ daysInMonth' = days
          /\ metrics' = OverviewMetrics(<<>>, 1, days)
    /\ dayOfMonth' = 1
    /\ records' = <<>>
    /\ ingested' = 0
    /\ UNCHANGED <<explorerVars, chartVars, dashboardVars, panelVars, asked, cacheVars>>

NextMetrics ==
    \/ \E cost \in Costs : AddRecord(cost)
    \/ NextDay
    \/ NextMonth

SpecMetrics == Init /\ [][NextMetrics]_vars

(***************************************************************************)
(* Failures of the four kinds of request, a response with a payload that   *)
(* is not of the expected shape included.                                  *)
(***************************************************************************)
\* a 2xx response whose body is not a FinopsOverview
MalformedPayload == [malformed |-> TRUE]

\* fetchOverview after the await, the body being malformed: axios hands the
\* body over as it is; setOverview(data); finally setLoading(false)
OverviewFetchMalformed(i) ==
    /\ i \in 1..Len(overviewPending)
    /\ failures < MaxFailures
    /\ failures' = failures + 1
    /\ overview' = MalformedPayload
    /\ overviewLoading' = FALSE
    /\ overviewPending' = RemoveAt(overviewPending, i)
    /\ UNCHANGED <<filterVars, pageVars, costVars, overviewError, summaryVars,
                   snackbarVars, latest, edits,
                   panelVars, asked>>
    /\ UNCHANGED <<cacheVars, metricVars, explorerVars, chartVars>>

NextFailures ==
    \/ \E i \in 1..MaxPending : CostFetchResolve(i)
    \/ \E i \in 1..MaxPending, err \in Failures : CostFetchReject(i, err)
    \/ \E i \in 1..MaxPending : OverviewFetchResolve(i)
    \/ \E i \in 1..MaxPending, err \in Failures : OverviewFetchReject(i, err)
    \/ \E i \in 1..MaxPending : OverviewFetchMalformed(i)
    \/ ErrorAlertClose
    \/ generateSummary
    \/ \E i \in 1..MaxPending : SummaryResolve(i)
    \/ \E i \in 1..MaxPending, err \in Failures : SummaryReject(i, err)
    \/ \E v \in QueryInputs : SetUserQuery(v)
    \/ handleGenerateInsight
    \/ \E i \in 1..MaxPending : InsightResolve(i)
    \/ \E i \in 1..MaxPending, err \in Failures : InsightReject(i, err)

SpecFailures == Init /\ [][NextFailures]_vars

(***************************************************************************)
(* BigQueryExplorerPage: datasets, tables and the preview of a table.      *)
(***************************************************************************)
\* if (loadingDatasets) return <LoadingSpinner/>
ExplorerRendered == ~loadingDatasets

\* fetchDatasets after the await: setDatasets(response.datasets);
\* setNextPageToken(response.next_page_token); finally setLoadingDatasets(false)
DatasetsFetchResolve ==
    /\ datasetsPending = 1
    /\ datasets' = listBigQueryDatasets.datasets
    /\ nextPageToken' = listBigQueryDatasets.next_page_token
    /\ loadingDatasets' = FALSE
    /\ datasetsPending' = 0
    /\ UNCHANGED <<selectedDataset, tables, selectedTable, tableData,
                   tableDataLimit, loadingTables, loadingTableData,
                   tablesPending, tableDataPending, selections,
                   ingestVars, explorerError, besideExplorer>>

\* fetchDatasets' catch
DatasetsFetchReject(err) ==
    /\ datasetsPending = 1
    /\ failures < MaxFailures
    /\ failures' = failures + 1
    /\ explorerError' = String(ApiError(err, "Failed to fetch BigQuery datasets.").detail)
    /\ loadingDatasets' = FALSE
    /\ datasetsPending' = 0
    /\ UNCHANGED <<datasets, nextPageToken, selectedDataset, tables, selectedTable,
                   tableData, tableDataLimit, loadingTables, loadingTableData,
                   tablesPending, tableDataPending, selections,
                   ingestVars, besideExplorerFailing>>

\* handleDatasetChange: setSelectedDataset(value); setSelectedTable('');
\* on the next render the effect on [selectedDataset] calls fetchTables up to
\* its await: setLoadingTables(true); setError(null); setSelectedTable('');
\* setTableData([]); the effect of fetchTableData finds no selected table
handleDatasetChange(value) ==
    /\ ExplorerRendered
    /\ value \in Elements(datasets)
    /\ value # selectedDataset
    /\ selections < MaxSelections
    /\ Len(tablesPending) < MaxPending
    /\ selections' = selections + 1
    /\ selectedDataset' = value
    /\ selectedTable' = ""
    /\ loadingTables' = TRUE
    /\ explorerError' = Null
    /\ tableData' = NoRows
    /\ tablesPending' = Append(tablesPending, value)
    /\ UNCHANGED <<datasets, tables, tableDataLimit, nextPageToken, loadingDatasets,
                   loadingTableData, datasetsPending, tableDataPending,
                   ingestVars, besideExplorer>>

\* fetchTableData up to its await, on a render with these values:
\* setLoadingTableData(true); setError(null); the request is sent
IssueTableDataRequest(datasetId, tableId, limit) ==
    /\ selections < MaxSelections
    /\ Len(tableDataPending) < MaxPending
    /\ selections' = selections + 1
    /\ loadingTableData' = TRUE
    /\ explorerError' = Null
    /\ tableDataPending' = Append(tableDataPending,
          [dataset |-> datasetId, table |-> tableId, limit |-> limit])

\* handleTableChange: setSelectedTable(value); the effect on
\* [selectedDataset, selectedTable, tableDataLimit] fetches
handleTableChange(value) ==
    /\ ExplorerRendered
    /\ selectedDataset # ""
    /\ ~loadingTables
    /\ value \in Elements(tables)
    /\ value # selectedTable
    /\ selectedTable' = value
    /\ IssueTableDataRequest(selectedDataset, value, tableDataLimit)
    /\ UNCHANGED <<datasets, selectedDataset, tables, tableData, tableDataLimit,
                   nextPageToken, loadingDatasets, loadingTables,
                   datasetsPending, tablesPending, ingestVars, besideExplorer>>

\* onChange of Limit Rows: setTableDataLimit(Number(e.target.value)); the
\* same effect fetches
SetTableDataLimit(value) ==
    /\ ExplorerRendered
    /\ selectedTable # ""
    /\ value # tableDataLimit
    /\ tableDataLimit' = value
    /\ IssueTableDataRequest(selectedDataset, selectedTable, value)
    /\ UNCHANGED <<datasets, selectedDataset, tables, selectedTable, tableData,
                   nextPageToken, loadingDatasets, loadingTables,
                   datasetsPending, tablesPending, ingestVars, besideExplorer>>

\* fetchTables after the await: setTables(response); finally
\* setLoadingTables(false)
TablesFetchResolve(i) ==
    /\ i \in 1..Len(tablesPending)
    /\ tables' = listBigQueryTables(tablesPending[i])
    /\ loadingTables' = FALSE
    /\ tablesPending' = RemoveAt(tablesPending, i)
    /\ UNCHANGED <<datasets, selectedDataset, selectedTable, tableData,
                   tableDataLimit, nextPageToken, loadingDatasets, loadingTableData,
                   datasetsPending, tableDataPending, selections,
                   ingestVars, explorerError, besideExplorer>>

\* `Failed to fetch tables for dataset ${selectedDataset}.`
TablesFallback(datasetId) ==
    IF datasetId = "d1" THEN "Failed to fetch tables for dataset d1."
    ELSE "Failed to fetch tables for dataset d2."

\* fetchTables' catch
TablesFetchReject(i, err) ==
    /\ i \in 1..Len(tablesPending)
    /\ failures < MaxFailures
    /\ failures' = failures + 1
    /\ explorerError' = String(ApiError(err, TablesFallback(tablesPending[i])).detail)
    /\ loadingTables' = FALSE
    /\ tablesPending' = RemoveAt(tablesPending, i)
    /\ UNCHANGED <<datasets, selectedDataset, tables, selectedTable, tableData,
                   tableDataLimit, nextPageToken, loadingDatasets, loadingTableData,
                   datasetsPending, tableDataPending, selections,
                   ingestVars, besideExplorerFailing>>

\* fetchTableData after the await: setTableData(response); finally
\* setLoadingTableData(false)
TableDataFetchResolve(i) ==
    /\ i \in 1..Len(tableDataPending)
    /\ TableExists(tableDataPending[i].dataset, tableDataPending[i].table)
    /\ tableData' = readBigQueryTableData(tableDataPending[i].dataset,
                                          tableDataPending[i].table,
                                          tableDataPending[i].limit)
    /\ loadingTableData' = FALSE
    /\ tableDataPending' = RemoveAt(tableDataPending, i)
    /\ UNCHANGED <<datasets, selectedDataset, tables, selectedTable,
                   tableDataLimit, nextPageToken, loadingDatasets, loadingTables,
                   datasetsPending, tablesPending, selections,
                   ingestVars, explorerError, besideExplorer>>

\* `Failed to fetch data for table ${selectedTable}.`
TableDataFallback(tableId) ==
    IF tableId = "t1" THEN "Failed to fetch data for table t1."
    ELSE IF tableId = "t2" THEN "Failed to fetch data for table t2."
    ELSE "Failed to fetch data for table t3."

\* fetchTableData's catch
TableDataFetchReject(i, err) ==
    /\ i \in 1..Len(tableDataPending)
    /\ failures < MaxFailures
    /\ failures' = failures + 1
    /\ explorerError' =
          String(ApiError(err, TableDataFallback(tableDataPending[i].table)).detail)
    /\ loadingTableData' = FALSE
    /\ tableDataPending' = RemoveAt(tableDataPending, i)
    /\ UNCHANGED <<datasets, selectedDataset, tables, selectedTable, tableData,
                   tableDataLimit, nextPageToken, loadingDatasets, loadingTables,
                   datasetsPending, tablesPending, selections,
                   ingestVars, besideExplorerFailing>>

\* fetchTableData's catch for a table that the dataset of the request does
\* not have
TableDataFetchNotFound(i) ==
    /\ i \in 1..Len(tableDataPending)
    /\ ~TableExists(tableDataPending[i].dataset, tableDataPending[i].table)
    /\ explorerError' =
          String(ApiError(TableNotFound,
                          TableDataFallback(tableDataPending[i].table)).detail)
    /\ loadingTableData' = FALSE
    /\ tableDataPending' = RemoveAt(tableDataPending, i)
    /\ UNCHANGED <<datasets, selectedDataset, tables, selectedTable, tableData,
                   tableDataLimit, nextPageToken, loadingDatasets, loadingTables,
                   datasetsPending, tablesPending, selections,
                   ingestVars, besideExplorer>>

NextExplorer ==
    \/ DatasetsFetchResolve
    \/ \E err \in Failures : DatasetsFetchReject(err)
    \/ \E value \in Elements(DatasetIds) : handleDatasetChange(value)
    \/ \E value \in {"t1", "t2", "t3"} : handleTableChange(value)
    \/ \E value \in LimitInputs : SetTableDataLimit(value)
    \/ \E i \in 1..MaxPending : TablesFetchResolve(i)
    \/ \E i \in 1..MaxPending, err \in Failures : TablesFetchReject(i, err)
    \/ \E i \in 1..MaxPending : TableDataFetchResolve(i)
    \/ \E i \in 1..MaxPending, err \in Failures : TableDataFetchReject(i, err)
    \/ \E i \in 1..MaxPending : TableDataFetchNotFound(i)

SpecExplorer == Init /\ [][NextExplorer]_vars

(***************************************************************************)
(* BigQueryExplorerPage: the ingestion.                                    *)
(***************************************************************************)
SetIngestStartDate(value) ==
    /\ ExplorerRendered
    /\ ingestStartDate' = value
    /\ UNCHANGED <<browseVars, ingestionLoading, explorerSnackbarOpen,
                   explorerSnackbarMessage, explorerSnackbarSeverity,
                   ingestEndDate, ingestPending, explorerError, besideExplorer>>

SetIngestEndDate(value) ==
    /\ ExplorerRendered
    /\ ingestEndDate' = value
    /\ UNCHANGED <<browseVars, ingestionLoading, explorerSnackbarOpen,
                   explorerSnackbarMessage, explorerSnackbarSeverity,
                   ingestStartDate, ingestPending, explorerError, besideExplorer>>

\* an Ingest Data button that stays enabled while an ingestion is pending
IngestDisabled_NotWhilePending == ingestDatasetId = "" \/ ingestTableId = ""

\* disabled={ingestionLoading || !ingestDatasetId || !ingestTableId}
IngestDisabled == ingestionLoading \/ ingestDatasetId = "" \/ ingestTableId = ""

\* the params of ingestBigQueryBillingData
IngestParams ==
    [dataset_id |-> ingestDatasetId, table_id |-> ingestTableId]
    @@ Optional("start_date", ingestStartDate # "", ingestStartDate)
    @@ Optional("end_date", ingestEndDate # "", ingestEndDate)

\* handleIngestData up to its await: setIngestionLoading(true); setError(null)
handleIngestData ==
    /\ ExplorerRendered
    /\ ~IngestDisabled
    /\ Len(ingestPending) < MaxPending
    /\ ingestionLoading' = TRUE
    /\ explorerError' = Null
    /\ ingestPending' = Append(ingestPending, IngestParams)
    /\ UNCHANGED <<browseVars, explorerSnackbarOpen, explorerSnackbarMessage,
                   explorerSnackbarSeverity, ingestStartDate, ingestEndDate,
                   besideExplorer>>

\* handleIngestData after the await: the snackbar shows response.message;
\* finally setIngestionLoading(false)
IngestResolve(i) ==
    /\ i \in 1..Len(ingestPending)
    /\ explorerSnackbarMessage' = ingestBigQueryBillingData(ingestPending[i]).message
    /\ explorerSnackbarSeverity' = "success"
    /\ explorerSnackbarOpen' = TRUE
    /\ ingestionLoading' = FALSE
    /\ ingestPending' = RemoveAt(ingestPending, i)
    /\ UNCHANGED <<browseVars, ingestStartDate, ingestEndDate, explorerError,
                   besideExplorer>>

\* handleIngestData's catch
IngestReject(i, err) ==
    /\ i \in 1..Len(ingestPending)
    /\ failures < MaxFailures
    /\ failures' = failures + 1
    /\ explorerError' = String(ApiError(err, "Failed to ingest BigQuery data.").detail)
    /\ explorerSnackbarMessage' = ApiError(err, "Failed to ingest BigQuery data.").detail
    /\ explorerSnackbarSeverity' = "error"
    /\ explorerSnackbarOpen' = TRUE
    /\ ingestionLoading' = FALSE
    /\ ingestPending' = RemoveAt(ingestPending, i)
    /\ UNCHANGED <<browseVars, ingestStartDate, ingestEndDate,
                   besideExplorerFailing>>

\* handleSnackbarClose of the BigQueryExplorerPage
handleExplorerSnackbarClose(reason) ==
    /\ ExplorerRendered
    /\ explorerSnackbarOpen
    /\ explorerSnackbarOpen' = (reason = "clickaway")
    /\ UNCHANGED <<browseVars, ingestionLoading, explorerSnackbarMessage,
                   explorerSnackbarSeverity, ingestStartDate, ingestEndDate,
                   ingestPending, explorerError, besideExplorer>>

\* the three triggers that are disabled while their request is pending,
\* with what renders them
NextTriggers ==
    \/ \E i \in 1..MaxPending : CostFetchResolve(i)
    \/ \E i \in 1..MaxPending : OverviewFetchResolve(i)
    \/ generateSummary
    \/ \E i \in 1..MaxPending : SummaryResolve(i)
    \/ \E i \in 1..MaxPending, err \in Failures : SummaryReject(i, err)
    \/ \E v \in QueryInputs : SetUserQuery(v)
    \/ handleGenerateInsight
    \/ \E i \in 1..MaxPending : InsightResolve(i)
    \/ \E i \in 1..MaxPending, err \in Failures : InsightReject(i, err)
    \/ DatasetsFetchResolve
    \/ \E value \in IngestDateInputs : SetIngestStartDate(value)
    \/ \E value \in IngestDateInputs : SetIngestEndDate(value)
    \/ handleIngestData
    \/ \E i \in 1..MaxPending : IngestResolve(i)
    \/ \E i \in 1..MaxPending, err \in Failures : IngestReject(i, err)
    \/ \E reason \in {"timeout", "clickaway"} : handleExplorerSnackbarClose(reason)

SpecTriggers == Init /\ [][NextTriggers]_vars

(***************************************************************************)
(* CostCharts: the page renders it again with one more record.             *)
(***************************************************************************)
besideCharts ==
    <<dashboardVars, panelVars, asked, cacheVars, metricVars, explorerVars>>

AddCostRecord(item) ==
    /\ Len(chartCostData) < MaxChartRecords
    /\ chartCostData' = Append(chartCostData, item)
    /\ charts' = CostCharts(chartCostData', chartProjectCostData)
    /\ UNCHANGED <<chartProjectCostData, besideCharts>>

AddProjectRecord(item) ==
    /\ Len(chartProjectCostData) < MaxProjectRecords
    /\ chartProjectCostData' = Append(chartProjectCostData, item)
    /\ charts' = CostCharts(chartCostData, chartProjectCostData')
    /\ UNCHANGED <<chartCostData, besideCharts>>

NextCharts ==
    \/ \E item \in CostRecords : AddCostRecord(item)
    \/ \E item \in ProjectRecords : AddProjectRecord(item)

SpecCharts == Init /\ [][NextCharts]_vars

(***************************************************************************)
(* Properties of the record fetching.                                      *)
(***************************************************************************)
\* the filter part of a params object: everything but the window
FiltersOf(p) == [k \in DOMAIN p \ {"skip", "limit"} |-> p[k]]

\* C1: once every record fetch has settled and the one issued last has
\* succeeded, costData is the response to the criteria of the one issued
\* last: a response to older criteria never overwrites it.
C1_StaleResponseDiscarded ==
    (costPending = <<>> /\ latest.outcome = "ok") => costData.for = latest.params

\* C2: when a non-page filter differs from the one of the last record fetch,
\* the next record fetch that is issued carries skip = 0.
C2_FilterChangeResetsPage ==
    [][(/\ latest'.id > latest.id
        /\ FiltersOf(CostParams(currentPage)) # FiltersOf(latest.params))
       => costPending'[Len(costPending) + 1].params.skip = 0]_vars

\* C3: no two record requests with structurally equal criteria are in flight
\* together.
C3_OneRequestPerCriteria ==
    \A i, j \in 1..Len(costPending) :
        i # j => costPending[i].params # costPending[j].params

\* C4: the page count handed to the Pagination is
\* max(1, ceil(totalItems / itemsPerPage)).
C4_PageCountAtLeastOne ==
    PaginationRendered => PaginationCount = Max(1, Ceil(totalItems, itemsPerPage))

\* C5: currentPage >= 1, and the current offset is below totalItems whenever
\* totalItems > 0.
C5_PageStateInvariant ==
    /\ currentPage >= 1
    /\ totalItems > 0 => (currentPage - 1) * itemsPerPage < totalItems

\* C5 happens: a page beyond the first is shown with its records
C5_Witness ==
    /\ currentPage = 3
    /\ costPending = <<>>
    /\ costData.for = CostParams(3)
    /\ costData.length > 0
    /\ totalItems > 0

\* C6: when no record fetch is loading and the records of the current page
\* are shown, totalItems is at least the number of records known to exist,
\* (currentPage - 1) * itemsPerPage + costData.length.
C6_EstimateCoversVisible ==
    (/\ costPending = <<>>
     /\ ~costDataLoading
     /\ costData.for = CostParams(currentPage))
    => totalItems >= (currentPage - 1) * itemsPerPage + costData.length

C8_FailureKeepsInsight ==
    [][/\ \A i \in 1..Len(summaryPending), err \in Failures :
            (summaryPending[i].shown # Null /\ SummaryReject(i, err))
            => llmInsight' = summaryPending[i].shown
       /\ \A i \in 1..Len(insightPending), err \in Failures :
            (insightPending[i].shown # Null /\ InsightReject(i, err))
            => aiResponse' = insightPending[i].shown]_vars

(***************************************************************************)
(* Properties of the distinct-values cache.                                *)
(***************************************************************************)
\* the data of the query was fetched less than staleTime ago
Fresh(q) == q # NoQuery /\ q.data # Null /\ q.age < staleTime

\* C9: for each dimension, while the list fetched last is less than 5
\* minutes old, the query is not removed before the 5 minutes are over, no
\* event starts a request for it, and every call of the hook returns the
\* list.
C9_FreshEntryServed ==
    [][\A d \in Dimensions :
         Fresh(queries[d]) =>
            /\ queries[d].gc = NoTimer \/ queries[d].age + queries[d].gc >= staleTime
            /\ queries'[d] # NoQuery => ~queries'[d].fetching
            /\ lastCall' # "none" => received'[d] = getDistinctValues(d)]_vars

\* C9 happens: a second component has mounted some time after the three
\* fetches succeeded, within the 5 minutes, and got the lists
C9_Witness ==
    /\ lastCall = "mount"
    /\ mounted >= 2
    /\ \A d \in Dimensions :
          /\ Fresh(queries[d])
          /\ queries[d].age > 0
          /\ ~queries[d].fetching
          /\ received[d] = getDistinctValues(d)

\* C10: a call of the hooks 30 minutes or more after the list of a dimension
\* was fetched finds a fresh request in flight for it.
C10_HardEviction ==
    \A d \in Dimensions :
       (/\ lastCall # "none"
        /\ queries[d] # NoQuery
        /\ queries[d].data # Null
        /\ queries[d].age >= cacheTime)
       => queries[d].fetching

(***************************************************************************)
(* Properties of the insight request of the AIInsightPanel.                *)
(***************************************************************************)
\* the questions that are empty or hold whitespace only
BlankInputs == {"", " "}

\* C11: no request of type natural_query is in flight whose question is
\* absent, empty or whitespace only.
C11_BlankQueryRejected ==
    \A i \in 1..Len(insightPending) :
       LET r == insightPending[i].request
       IN  r.insight_type = "natural_query"
           => ("query" \in DOMAIN r /\ r.query \notin BlankInputs)

\* field k of request r is absent when the input is empty, and the input
\* itself otherwise
FieldCarried(r, k, input, empty) ==
    IF input = empty THEN k \notin DOMAIN r ELSE k \in DOMAIN r /\ r[k] = input

\* C12: in every insight request that is sent, each optional field is
\* absent when its input is empty and equal to the input otherwise; none
\* is sent as the empty string or null.
C12_OptionalFieldsVerbatim ==
    [][Len(insightPending') > Len(insightPending) =>
         LET r == insightPending'[Len(insightPending')].request
         IN  /\ r.insight_type = insightType
             /\ FieldCarried(r, "query", userQuery, "")
             /\ FieldCarried(r, "project", projectFilter, "")
             /\ FieldCarried(r, "service", serviceFilter, "")
             /\ FieldCarried(r, "sku", skuFilter, "")
             /\ FieldCarried(r, "start_date", startDateFilter, 0)
             /\ FieldCarried(r, "end_date", endDateFilter, 0)]_vars

\* C12 happens: a summary request without question, with the project filter
C12_Witness ==
    \E i \in 1..Len(insightPending) :
       LET r == insightPending[i].request
       IN  /\ r.insight_type = "summary"
           /\ "query" \notin DOMAIN r
           /\ "project" \in DOMAIN r
           /\ r.project = "p1"

\* C13: when handleGenerateInsight rejects the input, the displayed
\* response, the insight type, the question, the requests in flight and
\* the state of the mutation are unchanged.
C13_RejectionKeepsState ==
    [][(/\ userQuery = ""
        /\ insightType = "natural_query"
        /\ panelSnackbarMessage' = ValidationMessage
        /\ panelSnackbarOpen'
        /\ <<panelSnackbarOpen, panelSnackbarMessage, panelSnackbarSeverity>>'
              # <<panelSnackbarOpen, panelSnackbarMessage, panelSnackbarSeverity>>)
       => /\ aiResponse' = aiResponse
          /\ insightType' = insightType
          /\ userQuery' = userQuery
          /\ insightPending' = insightPending
          /\ mutationStatus' = mutationStatus
          /\ asked' = asked]_vars

\* C13 happens: an input was rejected while a response was displayed
C13_Witness ==
    /\ panelSnackbarMessage = ValidationMessage
    /\ panelSnackbarOpen
    /\ aiResponse # Null
    /\ mutationStatus = "success"
    /\ insightPending = <<>>

(***************************************************************************)
(* Properties of the criteria built from the filter inputs.                *)
(***************************************************************************)
\* C14: no record request in flight carries start_date > end_date.
C14_InvertedRangeNotSent ==
    \A i \in 1..Len(costPending) :
       LET p == costPending[i].params
       IN  ("start_date" \in DOMAIN p /\ "end_date" \in DOMAIN p)
           => p.start_date <= p.end_date

\* the calendar day of an instant
DayOf(t) == t \div MsPerDay

\* C15: a record request issued with start date = end date = D carries a
\* range that holds every instant of day D: every record of day D satisfies
\* start_date <= time <= end_date.
C15_WholeDayCovered ==
    [][(/\ latest'.id > latest.id
        /\ startDateFilter # 0
        /\ startDateFilter = endDateFilter)
       => \A g \in DataGroups :
             DayOf(g.time) = startDateFilter
             => (latest'.params.start_date <= g.time
                 /\ g.time <= latest'.params.end_date)]_vars

\* C16: in every record request that is issued, a filter field whose input
\* is empty is absent, and a text filter that is not empty is carried as
\* it is.
C16_EmptyFieldsUnset ==
    [][\A k \in (Len(costPending) + 1)..Len(costPending') :
         LET p == costPending'[k].params
         IN  /\ FieldCarried(p, "project", projectFilter, "")
             /\ FieldCarried(p, "service", serviceFilter, "")
             /\ FieldCarried(p, "sku", skuFilter, "")
             /\ "start_date" \in DOMAIN p <=> startDateFilter # 0
             /\ "end_date" \in DOMAIN p <=> endDateFilter # 0]_vars

\* C16 happens: a request with the service filter and without project
C16_Witness ==
    \E i \in 1..Len(costPending) :
       LET p == costPending[i].params
       IN  /\ "service" \in DOMAIN p
           /\ p.service = "s2"
           /\ "project" \notin DOMAIN p
           /\ "start_date" \notin DOMAIN p

(***************************************************************************)
(* Properties of the overview metrics.                                     *)
(***************************************************************************)
\* C17: mtdSpend is the sum of the costs of the window,
\* projectedMonthEndSpend >= mtdSpend, and the four metrics are 0 for the
\* empty window.
C17_MetricsOfWindow ==
    /\ Equals(metrics.mtdSpend, ingested)
    /\ Geq(metrics.projectedMonthEndSpend, metrics.mtdSpend)
    /\ records = <<>> =>
          /\ Equals(metrics.mtdSpend, 0)
          /\ Equals(metrics.dailyBurnRateMtd, 0)
          /\ Equals(metrics.estimatedMonthlyBurnRate, 0)
          /\ Equals(metrics.projectedMonthEndSpend, 0)

\* C17 happens: a window with spend late in the month
C17_Witness ==
    /\ Len(records) = 2
    /\ ingested = 30
    /\ dayOfMonth > 20

\* C18: dailyBurnRateMtd * max(1, dayOfMonth) = mtdSpend, so it is mtdSpend
\* on day 1; costs 10 and 20 on day 2 of a 30-day month give 30, 15, 450
\* and 450.
C18_DailyBurnRate ==
    /\ metrics.dailyBurnRateMtd.den > 0
    /\ Equals(Times(metrics.dailyBurnRateMtd, Max(1, dayOfMonth)), ingested)
    /\ dayOfMonth = 1 => Equals(metrics.dailyBurnRateMtd, ingested)
    /\ (records = <<10, 20>> /\ dayOfMonth = 2 /\ daysInMonth = 30) =>
          /\ Equals(metrics.mtdSpend, 30)
          /\ Equals(metrics.dailyBurnRateMtd, 15)
          /\ Equals(metrics.estimatedMonthlyBurnRate, 450)
          /\ Equals(metrics.projectedMonthEndSpend, 450)

\* C18 happens: the scenario of day 2
C18_Witness ==
    /\ records = <<10, 20>>
    /\ dayOfMonth = 2
    /\ daysInMonth = 30
    /\ Equals(metrics.dailyBurnRateMtd, 15)

(***************************************************************************)
(* Properties of the overview refresh and of the displayed insight.        *)
(***************************************************************************)
\* C19: no event issues an overview request together with a record request:
\* the overview is requested only after the record fetch of the same filter
\* change has completed.
C19_OverviewAfterRecords ==
    [][~(/\ Len(overviewPending') > Len(overviewPending)
         /\ latest'.id > latest.id)]_vars

\* what the panel renders of a response: <Typography>{aiResponse}</Typography>
PanelDisplay == IF aiResponse = Null THEN EmptyObject ELSE [text |-> aiResponse.text]

\* C20: a response displayed by the panel is presented with its text, its
\* insight type and the time it was generated or received.
C20_InsightDisplayModel ==
    (mutationStatus = "success" /\ aiResponse # Null)
    => {"text", "insightType", "generatedAt"} \subseteq DOMAIN PanelDisplay

(***************************************************************************)
(* Properties of the failures.                                             *)
(***************************************************************************)
\* an ApiError with a detail that is not empty, and with a status code only
\* for a failure that came with a response
HasDetail(error, err) ==
    /\ error # Null
    /\ error.detail # ""
    /\ "status_code" \in DOMAIN error => "status" \in DOMAIN err

\* C21: every request that fails, by a rejection of any kind or by a
\* payload that is malformed, ends in the error state of its operation with
\* a detail that is not empty; the status code is there only when a
\* response was received.
C21_FailureHasDetail ==
    [][/\ \A i \in 1..MaxPending, err \in Failures :
            /\ CostFetchReject(i, err) => HasDetail(costDataError', err)
            /\ OverviewFetchReject(i, err) => HasDetail(overviewError', err)
            /\ SummaryReject(i, err) =>
                  (llmSummaryError' # Null /\ llmSummaryError'.text # "")
            /\ InsightReject(i, err) =>
                  (aiResponse' # Null /\ aiResponse'.text # ""
                   /\ panelSnackbarSeverity' = "error")
       /\ \A i \in 1..MaxPending :
            OverviewFetchMalformed(i) => overviewError' # Null]_vars

\* C22: a record fetch or an overview fetch that has entered Loading leaves
\* it, every request that was issued being answered.
C22_LoadingEnds ==
    /\ costDataLoading ~> ~costDataLoading
    /\ overviewLoading ~> ~overviewLoading

\* both hooks have left Loading, one of them by a failure
C22_Witness ==
    /\ ~costDataLoading /\ ~overviewLoading
    /\ costPending = <<>> /\ overviewPending = <<>>
    /\ costData.length > 0 /\ overviewError # Null

(***************************************************************************)
(* Properties of the retry.                                                *)
(***************************************************************************)
\* C23: a fetch invoked from the Error state clears the error and enters
\* Loading; nothing but the settling of a fetch sets the error again; and
\* when the fetch, the only one in flight, succeeds, the hook is Ready with
\* no error and with the data that was returned.
C23_RetryClearsError ==
    [][/\ (costDataError # Null /\ Len(costPending') > Len(costPending))
            => (costDataError' = Null /\ costDataLoading')
       /\ (overviewError # Null /\ Len(overviewPending') > Len(overviewPending))
            => (overviewError' = Null /\ overviewLoading')
       /\ (costDataError = Null /\ costPending' = costPending)
            => costDataError' = Null
       /\ (overviewError = Null /\ overviewPending' = overviewPending)
            => overviewError' = Null
       /\ (Len(costPending) = 1 /\ costDataError = Null /\ CostFetchResolve(1))
            => /\ costDataError' = Null /\ ~costDataLoading'
               /\ costData' = getAggregatedCostDataList(costPending[1].params)
       /\ (Len(overviewPending) = 1 /\ overviewError = Null
           /\ OverviewFetchResolve(1))
            => /\ overviewError' = Null /\ ~overviewLoading'
               /\ overview' = getFinopsOverview(overviewPending[1])]_vars

\* the retry of a failed record fetch, issued alone, has succeeded
C23_Witness ==
    /\ latest.retry /\ latest.outcome = "ok"
    /\ costPending = <<>> /\ ~costDataLoading /\ costDataError = Null
    /\ costData = getAggregatedCostDataList(latest.params)
    /\ costData.length > 0

(***************************************************************************)
(* Properties of overlapping fetches.                                      *)
(***************************************************************************)
\* C24: the loading flag of each hook is true in every state in which at
\* least one of its fetches is in flight.
C24_LoadingWhileInFlight ==
    /\ costPending # <<>> => costDataLoading
    /\ overviewPending # <<>> => overviewLoading
\* C25: once no record fetch is in flight, the error is set exactly when the
\* fetch that was issued last has failed.
C25_ErrorOfLatestFetch ==
    costPending = <<>> => (costDataError # Null <=> latest.outcome = "failed")
\* C26: once every overview fetch has settled, all of them with success, the
\* overview displayed is the response for the current project filter.
C26_OverviewOfCurrentProject ==
    (overviewPending = <<>> /\ failures = 0)
        => overview = getFinopsOverview(OverviewParams(projectFilter))

(***************************************************************************)
(* Properties of the pagination.                                           *)
(***************************************************************************)
\* C28: when the current page came back full the page count of the
\* Pagination is greater than currentPage, and while records are shown the
\* page count is not below currentPage.
C28_PageCountCoversPage ==
    PaginationRendered =>
        /\ (costData.for = CostParams(currentPage)
            /\ costData.length = itemsPerPage) => PaginationCount > currentPage
        /\ costData.length > 0 => PaginationCount >= currentPage

\* the second page came back full
C28_Witness ==
    /\ PaginationRendered
    /\ costPending = <<>>
    /\ currentPage = 2
    /\ costData.for = CostParams(currentPage)
    /\ costData.length = itemsPerPage

C29_ExplorerShowsSelection ==
    (tablesPending = <<>> /\ tableDataPending = <<>> /\ explorerError = Null
     /\ failures = 0)
    => /\ selectedDataset # "" => tables = listBigQueryTables(selectedDataset)
       /\ selectedTable # "" =>
             tableData = readBigQueryTableData(selectedDataset, selectedTable,
                                               tableDataLimit)

(***************************************************************************)
(* Properties of the charts.                                               *)
(***************************************************************************)
TotalCost(items) == SumCost([i \in 1..Len(items) |-> items[i].cost])

\* the value occurs exactly once in the sequence
OccursOnce(seq, value) == Cardinality({i \in 1..Len(seq) : seq[i] = value}) = 1

\* C30: the totals per service and the totals per day both sum to the total
\* cost of costData, every service and every day of costData appears exactly
\* once and nothing else appears, and the totals per project sum to the cost
\* of the records of projectCostData that have a project that is not empty.
C30_ChartsConserveCost ==
    /\ SumCost(charts.serviceCosts) = TotalCost(chartCostData)
    /\ SumCost(charts.dailyCosts) = TotalCost(chartCostData)
    /\ Len(charts.serviceCosts) = Len(charts.serviceNames)
    /\ Len(charts.dailyCosts) = Len(charts.sortedDates)
    /\ \A i \in 1..Len(chartCostData) :
          /\ OccursOnce(charts.serviceNames, chartCostData[i].service)
          /\ OccursOnce(charts.sortedDates,
                        <<1, chartCostData[i].time_period \div HoursPerDay + 1, 2024>>)
    /\ \A i \in 1..Len(charts.serviceNames) :
          \E j \in 1..Len(chartCostData) :
              chartCostData[j].service = charts.serviceNames[i]
    /\ \A i \in 1..Len(charts.sortedDates) :
          \E j \in 1..Len(chartCostData) :
              chartCostData[j].time_period \div HoursPerDay + 1
                  = charts.sortedDates[i][2]
    /\ SumCost(charts.projectCosts) =
          TotalCost(SelectSeq(chartProjectCostData,
                              LAMBDA item : "project" \in DOMAIN item
                                            /\ item.project # ""))

\* three records of two services on two days, two of them sharing the
\* service and two the day; one project record with a project and one without
C30_Witness ==
    /\ Len(chartCostData) = 3
    /\ Len(charts.serviceNames) = 2
    /\ Len(charts.sortedDates) = 2
    /\ Len(chartProjectCostData) = 2
    /\ Len(charts.projectNames) = 1
    /\ SumCost(charts.projectCosts) < TotalCost(chartProjectCostData)

====
